---- MODULE Spec2Model ----
(***************************************************************************)
(* Parser-combinator core of lang-tools: the Parser monad of src/parser.rs *)
(* (result, error, get_scanner, set_scanner, >>, or, if_else, multi_if,    *)
(* run) and the token-stream primitives of src/parser/parser_functions.rs  *)
(* (is_at_end, previous, peek, advance, check, matches), run over the      *)
(* token-list scanner that parser_functions.rs defines for its tests.      *)
(*                                                                         *)
(* A Parser is a boxed closure.  Closures are represented by the data they *)
(* capture: a parser is a record naming its constructor and its captured   *)
(* values, a continuation is a record naming the closure and its captured  *)
(* values; evaluate and call run the closure bodies.                       *)
(***************************************************************************)
EXTENDS Integers, Sequences, FiniteSets, TLC

VARIABLES
    input,    \* the scanner handed to run
    invoked,  \* the constructor or combinator called, with its arguments
    parser,   \* the parser it built, which was run (None before a run)
    value,    \* the value self.evaluate(scanner) returned
    scanner,  \* the scanner self.evaluate(scanner) returned
    errors,   \* the error log self.evaluate(scanner) returned
    status,   \* "ready", "returned", or "panicked" (the run unwound)
    outcome   \* what run returned: Ok(value) or Err(errors); None before that

vars == <<input, invoked, parser, value, scanner, errors, status, outcome>>

-----------------------------------------------------------------------------
(* Bounds of the model *)

MaxTokens == 2      \* longest token list given to TestScanner::new
MaxBranches == 2    \* longest branch list given to multi_if

-----------------------------------------------------------------------------
(* Values: (), bool, &str, TestToken, TestScanner *)

Unit == [t |-> "unit"]
Bool(b) == [t |-> "bool", b |-> b]
Str(s) == [t |-> "str", s |-> s]

TokenTypes == {"A", "B", "None"}
TestToken(ty) == [t |-> "token", ty |-> ty]
t_type(token) == token.ty

\* TestScanner::new
new(tokens) == [t |-> "scanner", tokens |-> tokens, is_at_start |-> 0]

from_scanner(other) ==
    [t |-> "scanner", tokens |-> other.tokens, is_at_start |-> other.is_at_start]

\* Vec::remove(0) panics on an empty vector
scan_token_panics(self) == self.is_at_start # 0 /\ self.tokens = << >>

scan_token(self) ==
    IF self.is_at_start = 0
    THEN [self EXCEPT !.is_at_start = 1]
    ELSE [self EXCEPT !.tokens = Tail(@)]

is_finished(self) == self.tokens = << >>

current_token(self) ==
    IF self.is_at_start = 0 THEN TestToken("None")
    ELSE IF Len(self.tokens) > 0 THEN self.tokens[1]
    ELSE TestToken("None")

next_token(self) ==
    IF Len(self.tokens) > self.is_at_start
    THEN self.tokens[self.is_at_start + 1]
    ELSE TestToken("None")

-----------------------------------------------------------------------------
(* Parser constructors: the closure each one boxes is run by evaluate *)

result(v) == [op |-> "result", value |-> v]
error(v, e) == [op |-> "error", value |-> v, error |-> e]
get_scanner == [op |-> "get_scanner"]
set_scanner(s) == [op |-> "set_scanner", scanner |-> s]
shr(self, f) == [op |-> "shr", self |-> self, f |-> f]

(* Continuations: the closures handed to >> *)
K_const(p) == [fn |-> "const", p |-> p]                       \* |_| p
K_is_finished == [fn |-> "is_finished"]
K_current_token == [fn |-> "current_token"]
K_next_token == [fn |-> "next_token"]
K_scan_token == [fn |-> "scan_token"]
K_type_eq(ty) == [fn |-> "type_eq", t_type |-> ty]
K_or_self(other) == [fn |-> "or_self", other |-> other]       \* |a| other >> ...
K_or_other(a) == [fn |-> "or_other", a |-> a]                 \* move |b| result(a || b)
K_if_else(t, f) == [fn |-> "if_else", t |-> t, f |-> f]
K_result == [fn |-> "result"]                                 \* Parser::result as a function
K_then(f, g) == [fn |-> "then", f |-> f, g |-> g]             \* |x| f(x) >> g

\* if_else as it would be with its branches the wrong way round
if_else_swapped(self, t, f) == shr(self, K_if_else(f, t))

if_else(self, t, f) == shr(self, K_if_else(t, f))

\* or as it would be if it skipped `other` once `self` is true
or_short_circuit(self, other) == if_else(self, result(Bool(TRUE)), other)

or(self, other) == shr(self, K_or_self(other))

\* multi_if as it would be if it folded the branches from the front
RECURSIVE multi_if_from_front(_, _)
multi_if_from_front(branches, otherwise) ==
    IF branches = << >>
    THEN otherwise
    ELSE multi_if_from_front(Tail(branches),
                             if_else(Head(branches).cond, Head(branches).t, otherwise))

RECURSIVE multi_if(_, _)
multi_if(branches, otherwise) ==
    IF branches = << >>
    THEN otherwise
    ELSE LET last == branches[Len(branches)]
         IN  multi_if(SubSeq(branches, 1, Len(branches) - 1),
                      if_else(last.cond, last.t, otherwise))

previous == shr(get_scanner, K_current_token)

is_at_end == shr(get_scanner, K_is_finished)

\* peek as it would be if it scanned the token it reports
peek_consuming == shr(get_scanner, K_scan_token)

peek == shr(get_scanner, K_next_token)

advance == shr(get_scanner, K_scan_token)

check(ty) == if_else(is_at_end, result(Bool(FALSE)), shr(peek, K_type_eq(ty)))

\* matches as it would be if it forgot to advance
matches_without_advance(ty) ==
    if_else(check(ty), result(Bool(TRUE)), result(Bool(FALSE)))

matches(ty) ==
    if_else(check(ty), shr(advance, K_const(result(Bool(TRUE)))), result(Bool(FALSE)))

-----------------------------------------------------------------------------
(* Calling a continuation: f(value).  A call that unwinds yields Unwind. *)

Unwind == [op |-> "unwind"]

RECURSIVE call(_, _)
call(f, v) ==
    CASE f.fn = "const" -> f.p
      [] f.fn = "is_finished" -> result(Bool(is_finished(v)))
      [] f.fn = "current_token" -> result(current_token(v))
      [] f.fn = "next_token" -> result(next_token(v))
      [] f.fn = "scan_token" ->
            IF scan_token_panics(v) THEN Unwind
            ELSE shr(set_scanner(scan_token(v)), K_const(previous))
      [] f.fn = "type_eq" -> result(Bool(t_type(v) = f.t_type))
      [] f.fn = "or_self" -> shr(f.other, K_or_other(v.b))
      [] f.fn = "or_other" -> result(Bool(f.a \/ v.b))
      [] f.fn = "if_else" -> IF v.b THEN f.t ELSE f.f
      [] f.fn = "result" -> result(v)
      [] f.fn = "then" ->
            LET q == call(f.f, v)
            IN  IF q = Unwind THEN Unwind ELSE shr(q, f.g)

-----------------------------------------------------------------------------
(* Running a parser: (self.f)(scanner) *)

Returned(v, s, e) == [panicked |-> FALSE, value |-> v, scanner |-> s, errors |-> e]
Panicked == [panicked |-> TRUE, value |-> Unit, scanner |-> Unit, errors |-> << >>]

result_f(v, s) == Returned(v, s, << >>)

error_f(v, e, s) == Returned(v, s, <<e>>)

get_scanner_f(s) == Returned(from_scanner(s), s, << >>)

set_scanner_f(new_scanner, s) == Returned(Unit, from_scanner(new_scanner), << >>)

RECURSIVE evaluate(_, _)

\* >> as it would be if a step that recorded errors ended the chain
shr_f_short_circuit(self, f, s) ==
    LET first == evaluate(self, s)
    IN  IF first.panicked THEN Panicked
        ELSE IF first.errors # << >> THEN first
        ELSE LET next == call(f, first.value)
             IN  IF next = Unwind THEN Panicked
                 ELSE LET second == evaluate(next, first.scanner)
                      IN  IF second.panicked THEN Panicked
                          ELSE Returned(second.value, second.scanner,
                                        first.errors \o second.errors)

\* >> as it would be if the logs were appended the other way round
shr_f_prepends(self, f, s) ==
    LET first == evaluate(self, s)
    IN  IF first.panicked THEN Panicked
        ELSE LET next == call(f, first.value)
             IN  IF next = Unwind THEN Panicked
                 ELSE LET second == evaluate(next, first.scanner)
                      IN  IF second.panicked THEN Panicked
                          ELSE Returned(second.value, second.scanner,
                                        second.errors \o first.errors)

\* >> as it would be if it returned the shadowed `scanner` instead of `s`
shr_f_first_scanner(self, f, s) ==
    LET first == evaluate(self, s)
    IN  IF first.panicked THEN Panicked
        ELSE LET next == call(f, first.value)
             IN  IF next = Unwind THEN Panicked
                 ELSE LET second == evaluate(next, first.scanner)
                      IN  IF second.panicked THEN Panicked
                          ELSE Returned(second.value, first.scanner,
                                        first.errors \o second.errors)

shr_f(self, f, s) ==
    LET first == evaluate(self, s)
    IN  IF first.panicked THEN Panicked
        ELSE LET next == call(f, first.value)
             IN  IF next = Unwind THEN Panicked
                 ELSE LET second == evaluate(next, first.scanner)
                      IN  IF second.panicked THEN Panicked
                          ELSE Returned(second.value, second.scanner,
                                        first.errors \o second.errors)

evaluate(self, s) ==
    CASE self.op = "result" -> result_f(self.value, s)
      [] self.op = "error" -> error_f(self.value, self.error, s)
      [] self.op = "get_scanner" -> get_scanner_f(s)
      [] self.op = "set_scanner" -> set_scanner_f(self.scanner, s)
      [] self.op = "shr" -> shr_f(self.self, self.f, s)

Ok(v) == [t |-> "Ok", value |-> v]
Err(e) == [t |-> "Err", errors |-> e]
None == [t |-> "None"]

\* run as it would be if it reported only the first error
run_first_error(self, s) ==
    LET r == evaluate(self, s)
    IN  IF r.panicked THEN None
        ELSE IF r.errors = << >> THEN Ok(r.value) ELSE Err(<<Head(r.errors)>>)

run(self, s) ==
    LET r == evaluate(self, s)
    IN  IF r.panicked THEN None
        ELSE IF r.errors = << >> THEN Ok(r.value) ELSE Err(r.errors)

-----------------------------------------------------------------------------
(* The inputs: token lists, scanners and the parsers handed to combinators *)

RECURSIVE SeqsUpTo(_, _)
SeqsUpTo(S, n) ==
    IF n = 0 THEN {<< >>}
    ELSE LET shorter == SeqsUpTo(S, n - 1)
         IN  shorter \cup {Append(q, x) : q \in shorter, x \in S}

Streams == SeqsUpTo({TestToken("A"), TestToken("B")}, MaxTokens)

\* TestScanner::new(tokens) and TestScanner::new(tokens).scan_token()
Scanners == {new(tokens) : tokens \in Streams}
              \cup {scan_token(new(tokens)) : tokens \in Streams}

Messages == {"a", "b"}

\* Parser<S, bool>
Conditions ==
    {result(Bool(TRUE)), result(Bool(FALSE)),
     error(Bool(TRUE), "a"), error(Bool(FALSE), "a"),
     is_at_end, check("B"), matches("A")}

\* Parser<S, Rc<Token>>
TokenParsers ==
    {result(TestToken("None")), error(TestToken("None"), "b"), peek, advance}

\* Parser<S, &str>
Consequences ==
    {error(Str("x"), "a"), shr(advance, K_const(result(Str("y"))))}

Otherwise == {result(Str("z")), error(Str("z"), "b")}

Branches ==
    SeqsUpTo({[cond |-> c, t |-> t] :
                c \in {result(Bool(TRUE)), result(Bool(FALSE)), matches("A")},
                t \in Consequences}, MaxBranches)

\* FnOnce(bool) -> Parser<S, U>
Continuations ==
    {K_const(p) : p \in TokenParsers}
    \cup {K_const(shr(error(Unit, "b"), K_const(error(Unit, "a")))),
          K_const(shr(advance, K_const(error(TestToken("None"), "a")))),
          K_const(set_scanner(new(<<TestToken("A")>>)))}
    \cup {K_if_else(t, f) : t, f \in {peek, advance, error(TestToken("None"), "b")}}
    \cup {K_or_other(TRUE), K_or_other(FALSE), K_result}

-----------------------------------------------------------------------------
(* One run: parser.run(input).  Each action calls one constructor or       *)
(* combinator with arguments drawn from the inputs and runs the parser it  *)
(* built on the input scanner.                                             *)

Execute(call_made, p) ==
    /\ invoked' = call_made
    /\ parser' = p
    /\ input' = input
    /\ outcome' = run(p, input)
    /\ LET r == evaluate(p, input)
       IN  IF r.panicked
           THEN /\ status' = "panicked"
                /\ UNCHANGED <<value, scanner, errors>>
           ELSE /\ status' = "returned"
                /\ value' = r.value
                /\ scanner' = r.scanner
                /\ errors' = r.errors

Init ==
    /\ input \in Scanners
    /\ scanner = input
    /\ invoked = None
    /\ parser = None
    /\ value = Unit
    /\ errors = << >>
    /\ status = "ready"
    /\ outcome = None

RunResult ==
    /\ status = "ready"
    /\ \E v \in {Unit, Bool(TRUE), Str("x")} :
          Execute([op |-> "result", value |-> v], result(v))

RunError ==
    /\ status = "ready"
    /\ \E m \in Messages :
          Execute([op |-> "error", value |-> Unit, error |-> m], error(Unit, m))

RunGetScanner ==
    /\ status = "ready"
    /\ Execute([op |-> "get_scanner"], get_scanner)

RunSetScanner ==
    /\ status = "ready"
    /\ \E s \in Scanners :
          Execute([op |-> "set_scanner", scanner |-> s], set_scanner(s))

RunShr ==
    /\ status = "ready"
    /\ \E p \in Conditions, f \in Continuations :
          Execute([op |-> "shr", self |-> p, f |-> f], shr(p, f))

RunOr ==
    /\ status = "ready"
    /\ \E a, b \in Conditions :
          Execute([op |-> "or", self |-> a, other |-> b], or(a, b))

RunIfElse ==
    /\ status = "ready"
    /\ \E c \in Conditions, t, f \in TokenParsers :
          Execute([op |-> "if_else", self |-> c, t |-> t, f |-> f], if_else(c, t, f))

RunMultiIf ==
    /\ status = "ready"
    /\ \E bs \in Branches, o \in Otherwise :
          Execute([op |-> "multi_if", branches |-> bs, otherwise |-> o],
                  multi_if(bs, o))

RunIsAtEnd ==
    /\ status = "ready"
    /\ Execute([op |-> "is_at_end"], is_at_end)

RunPrevious ==
    /\ status = "ready"
    /\ Execute([op |-> "previous"], previous)

RunPeek ==
    /\ status = "ready"
    /\ Execute([op |-> "peek"], peek)

RunAdvance ==
    /\ status = "ready"
    /\ Execute([op |-> "advance"], advance)

RunCheck ==
    /\ status = "ready"
    /\ \E ty \in TokenTypes :
          Execute([op |-> "check", t_type |-> ty], check(ty))

RunMatches ==
    /\ status = "ready"
    /\ \E ty \in TokenTypes :
          Execute([op |-> "matches", t_type |-> ty], matches(ty))

Next ==
    \/ RunResult \/ RunError \/ RunGetScanner \/ RunSetScanner
    \/ RunShr \/ RunOr \/ RunIfElse \/ RunMultiIf
    \/ RunIsAtEnd \/ RunPrevious \/ RunPeek \/ RunAdvance
    \/ RunCheck \/ RunMatches

Spec == Init /\ [][Next]_vars

-----------------------------------------------------------------------------
(* What the run produced *)

Observed ==
    IF status = "panicked" THEN Panicked ELSE Returned(value, scanner, errors)

Ran(op) == status # "ready" /\ invoked.op = op

-----------------------------------------------------------------------------
\* a parser built by >> was run: p >> f itself, or a combinator made of >>
Sequenced == status # "ready" /\ parser.op = "shr"

\* C1: sequencing never short-circuits on error.  Whenever p >> f was run
\* and p returned, f was called on p's value and the parser it returned was
\* run from the scanner p produced, whether or not p logged errors; the
\* value and the final scanner of p >> f are those of that second run.
C1_NoShortCircuit ==
    Sequenced =>
        LET first == evaluate(parser.self, input)
        IN  (~first.panicked /\ call(parser.f, first.value) # Unwind) =>
                LET second == evaluate(call(parser.f, first.value), first.scanner)
                IN  ~second.panicked =>
                        /\ status = "returned"
                        /\ value = second.value
                        /\ scanner = second.scanner

\* p logged an error and the parser f returned still moved the scanner
C1_Witness ==
    /\ Ran("shr")
    /\ status = "returned"
    /\ evaluate(invoked.self, input).errors # << >>
    /\ scanner # evaluate(invoked.self, input).scanner

\* C2: the error log of p >> f is p's errors followed by the errors of the
\* parser f returned, nothing lost, duplicated or reordered; in particular
\* error(v, "a") >> (_ => error(w, "b")) logs exactly <<"a", "b">>.
C2_ErrorOrder ==
    (Sequenced /\ status = "returned") =>
        LET first == evaluate(parser.self, input)
            second == evaluate(call(parser.f, first.value), first.scanner)
        IN  /\ errors = first.errors \o second.errors
            /\ (/\ parser.self = error(Bool(TRUE), "a")
                /\ parser.f = K_const(error(TestToken("None"), "b")))
                   => errors = <<"a", "b">>
            /\ (/\ parser.self = error(Bool(TRUE), "a")
                /\ parser.f = K_const(shr(error(Unit, "b"), K_const(error(Unit, "a")))))
                   => errors = <<"a", "b", "a">>

\* a chain of three steps logged "a", "b", "a"
C2_Witness ==
    /\ Ran("shr")
    /\ status = "returned"
    /\ errors = <<"a", "b", "a">>

\* C3: run returns Ok(value) exactly when the accumulated error log is
\* empty, and otherwise Err with the whole log in order, never the value.
C3_RunResult ==
    status = "returned" =>
        /\ (outcome = Ok(value)) <=> (errors = << >>)
        /\ errors # << >> => outcome = Err(errors)

\* run returned Err with a log of more than one message
C3_Witness ==
    /\ status = "returned"
    /\ Len(errors) > 1
    /\ outcome = Err(errors)

\* C4: if_else runs exactly one branch.  c.if_else(t, f) runs c, then t
\* when c's value is true and f when it is false, from the scanner c
\* produced; the branch not selected changes neither scanner nor log.
C4_IfElseOneBranch ==
    Ran("if_else") =>
        LET c == evaluate(invoked.self, input)
        IN  ~c.panicked =>
                LET selected == IF c.value.b THEN invoked.t ELSE invoked.f
                    r == evaluate(selected, c.scanner)
                IN  Observed = IF r.panicked THEN Panicked
                               ELSE Returned(r.value, r.scanner, c.errors \o r.errors)

\* the condition was false, and of two branches that both act only the
\* else branch logged its error: the then branch did not move the scanner
C4_Witness ==
    /\ Ran("if_else")
    /\ status = "returned"
    /\ invoked.self = check("B")
    /\ value = TestToken("None")
    /\ invoked.t = advance
    /\ invoked.f = error(TestToken("None"), "b")
    /\ next_token(input) = TestToken("A")
    /\ scanner = input
    /\ errors = <<"b">>

\* What first-match-wins prescribes: the conditions run in list order, each
\* from the scanner its predecessor left; the first true one selects its
\* consequence, and `otherwise` runs when none is true.
RECURSIVE FirstMatch(_, _, _, _, _)
FirstMatch(branches, otherwise, i, s, log) ==
    IF i > Len(branches)
    THEN LET r == evaluate(otherwise, s)
         IN  IF r.panicked THEN Panicked
             ELSE Returned(r.value, r.scanner, log \o r.errors)
    ELSE LET c == evaluate(branches[i].cond, s)
         IN  IF c.panicked THEN Panicked
             ELSE IF c.value.b
             THEN LET r == evaluate(branches[i].t, c.scanner)
                  IN  IF r.panicked THEN Panicked
                      ELSE Returned(r.value, r.scanner, log \o c.errors \o r.errors)
             ELSE FirstMatch(branches, otherwise, i + 1, c.scanner, log \o c.errors)

\* C5: multi_if is first-match-wins in list order: the consequence run is
\* the one paired with the first condition that is true, `otherwise` runs
\* iff no condition is true, and no other consequence runs.
C5_MultiIfFirstMatch ==
    Ran("multi_if") =>
        Observed = FirstMatch(invoked.branches, invoked.otherwise, 1, input, << >>)

\* two branches with different consequences, the first condition false and
\* the second true: the second consequence ran and the first did not log
C5_Witness ==
    /\ Ran("multi_if")
    /\ status = "returned"
    /\ Len(invoked.branches) = 2
    /\ invoked.branches[1].cond = result(Bool(FALSE))
    /\ invoked.branches[1].t = error(Str("x"), "a")
    /\ invoked.branches[2].cond = matches("A")
    /\ invoked.branches[2].t # invoked.branches[1].t
    /\ value = Str("y")
    /\ errors = << >>

\* C6: matches(type) consumes iff it matches: when the scanner is not at end
\* and the peeked token has that type it yields true and leaves the scanner
\* one token further; otherwise it yields false and the scanner it was given.
C6_MatchesConsumesIffMatch ==
    Ran("matches") =>
        /\ status = "returned"
        /\ IF ~is_finished(input) /\ t_type(next_token(input)) = invoked.t_type
           THEN value = Bool(TRUE) /\ scanner = scan_token(input)
           ELSE value = Bool(FALSE) /\ scanner = input

\* matches(A) on a scanner whose next token is A: true, and one token on
C6_Witness ==
    /\ Ran("matches")
    /\ invoked.t_type = "A"
    /\ next_token(input) = TestToken("A")
    /\ value = Bool(TRUE)
    /\ scanner = scan_token(input)
    /\ scanner # input

\* C7: from any scanner state advance() returns the token peek() reported
\* before it, previous() run right after returns that same token, and the
\* threaded scanner is the state one token further on.
C7_AdvanceReturnsNext ==
    Ran("advance") =>
        /\ status = "returned"
        /\ value = next_token(input)
        /\ scanner = scan_token(input)
        /\ evaluate(previous, scanner).value = value

\* Where scan_token returns, advance() does all of that: the run unwinds only
\* on the exhausted scanner TestScanner::new(vec![]).scan_token().
AdvanceWhereScanTokenReturns ==
    Ran("advance") =>
        IF scan_token_panics(input)
        THEN status = "panicked" /\ input = scan_token(new(<< >>))
        ELSE /\ status = "returned"
             /\ value = next_token(input)
             /\ scanner = scan_token(input)
             /\ evaluate(previous, scanner).value = value

\* C8: peek and check never change position: the scanner they thread out is
\* the one they were given, so a step after them sees the same current and
\* upcoming token; check is false at end of input and otherwise true iff
\* the peeked token has the given type.
C8_PeekCheckKeepPosition ==
    (Ran("peek") \/ Ran("check")) =>
        /\ status = "returned"
        /\ scanner = input
        /\ evaluate(previous, scanner) = evaluate(previous, input)
        /\ evaluate(peek, scanner) = evaluate(peek, input)
        /\ Ran("peek") => value = next_token(input)
        /\ Ran("check") =>
              value = Bool(~is_finished(input)
                           /\ t_type(next_token(input)) = invoked.t_type)

\* check(B) answered true on a scanner with a B coming up, and stayed put
C8_Witness ==
    /\ Ran("check")
    /\ invoked.t_type = "B"
    /\ value = Bool(TRUE)
    /\ scanner = input
    /\ next_token(scanner) = TestToken("B")

\* continuations g for the associativity law
LawContinuations ==
    {K_result, K_const(advance), K_const(error(Unit, "b")),
     K_const(set_scanner(new(<< >>))), K_then(K_const(peek), K_type_eq("A"))}

\* C9: >> is a lawful bind: result(v) >> f is f(v); p >> result is p; and
\* (p >> f) >> g is p >> (x => f(x) >> g), each as the same
\* (value, final scanner, error log).
C9_MonadLaws ==
    /\ status # "ready" => evaluate(shr(parser, K_result), input) = Observed
    /\ (Ran("shr") /\ invoked.self.op = "result") =>
            Observed = evaluate(call(invoked.f, invoked.self.value), input)
    /\ Ran("shr") =>
            \A g \in LawContinuations :
                evaluate(shr(parser, g), input)
                    = evaluate(shr(invoked.self, K_then(invoked.f, g)), input)

\* result(v) >> f was run with an f(v) that moves the scanner and logs
C9_Witness ==
    /\ Ran("shr")
    /\ status = "returned"
    /\ invoked.self.op = "result"
    /\ scanner # input
    /\ errors # << >>

\* C10: a.or(b) runs both sides: a from the input, then b from the scanner
\* a produced even when a is true; the value is a's value OR b's, the final
\* scanner is b's, the log is a's errors followed by b's.
C10_OrRunsBoth ==
    Ran("or") =>
        LET a == evaluate(invoked.self, input)
        IN  ~a.panicked =>
                LET b == evaluate(invoked.other, a.scanner)
                IN  ~b.panicked =>
                        /\ status = "returned"
                        /\ value = Bool(a.value.b \/ b.value.b)
                        /\ scanner = b.scanner
                        /\ errors = a.errors \o b.errors

\* a was true and logged an error, and b still ran: it consumed a token
C10_Witness ==
    /\ Ran("or")
    /\ status = "returned"
    /\ invoked.self = error(Bool(TRUE), "a")
    /\ invoked.other = matches("A")
    /\ scanner # input
    /\ errors = <<"a">>
    /\ value = Bool(TRUE)

====
